---- MODULE Spec2Model ----
(***************************************************************************)
(* Model of the docking-viewport example (src/src/main.rs): a dock tree of *)
(* named tabs toggled from a menu, a render-target image resized by the    *)
(* "Viewport" tab, a colour editor tab, and a cube rotated every frame.    *)
(*                                                                         *)
(* The dock tree itself (Tree<String> of the docking library) has no       *)
(* source under src/; its operations are modelled from section 4.1 of the  *)
(* specification, laid out as the binary heap the library's NodeIndex      *)
(* (root 0, left 2i+1, right 2i+2) addresses.                              *)
(*                                                                         *)
(* Units.  Panel sizes are in half pixels (so that the f32 -> u32          *)
(* truncation of as_uvec2 / `as u32` does something), the window scale     *)
(* factor is in halves (2 = 1.0, 3 = 1.5, 4 = 2.0), split fractions are in *)
(* tenths.  Frame times of rotate_cube are in units of 5*pi seconds and    *)
(* angles in quarter turns: 1.5 rad/s * 5*pi s = 15 quarter turns and      *)
(* 1.3 rad/s * 5*pi s = 13 quarter turns, so every rotation is an exact    *)
(* signed permutation matrix.                                              *)
(***************************************************************************)
EXTENDS Integers, Sequences, FiniteSets, TLC

VARIABLES
    tree,         \* DockTree: function node index -> node (main.rs:48)
    focused,      \* the tree's focused node: <<>> or <<index>>
    imageSize,    \* viewport image size in pixels <<width, height>> (main.rs:52)
    baseColor,    \* cube material base colour (main.rs:180)
    scale,        \* Window::scale_factor() in halves (main.rs:223)
    world,        \* which of the things update_ui fetches exist (main.rs:217-229)
    pc,           \* "start", "ran", or the panic message update_ui died with
    menu,         \* what the last frame's menu bar drew: the "Window" menu
                  \* button, then the selectable labels if the menu was open
    lastOp,       \* what the last frame's menu click did to the tree
    laidOut,      \* tab names in the tree the last frame's dock area laid out
    rendered,     \* bag of the tabs the last frame handed to TabViewer::ui
    drawn,        \* bag of the draw outputs of the last frame's TabViewer::ui calls
    resizes,      \* Image::resize calls made by the last frame
    vpObserved,   \* available size the last frame's "Viewport" tab saw, or <<>>
    prevObserved, \* vpObserved of the TabViewer::ui call before (RenderTab)
    uiTab,        \* tab name last handed to TabViewer::ui on its own (RenderTab)
    rotation,     \* cube Transform rotation as a 3x3 matrix
    elapsed,      \* sum of the frame times rotate_cube has seen
    frames,       \* number of rotate_cube runs
    xTurned,      \* sum of the angles passed to rotate_x
    zTurned       \* sum of the angles passed to rotate_z

dockVars == <<tree, focused, menu, lastOp, laidOut>>
drawVars == <<imageSize, baseColor, rendered, drawn, resizes, vpObserved, prevObserved>>
envVars  == <<scale, world, pc, uiTab>>
rotVars  == <<rotation, elapsed, frames, xTurned, zTurned>>
vars     == <<dockVars, drawVars, envVars, rotVars>>

----------------------------------------------------------------------------
(* Bounds *)

MaxScaleHalves == 4     \* largest window scale factor, in halves (2.0)
MaxElapsed     == 8     \* rotate_cube stops being scheduled after this much time
MaxDt          == 3     \* longest single frame time
MaxFrames      == 5     \* most rotate_cube runs

----------------------------------------------------------------------------
(* Program constants *)

DefaultSize == 512      \* main.rs:128-129
RateX       == 15       \* 1.5 rad/s (main.rs:271) per 5*pi s, in quarter turns
RateZ       == 13       \* 1.3 rad/s (main.rs:272) per 5*pi s, in quarter turns

MenuTabs == <<"Viewport", "Scene Control", "Tab 1", "Tab 2", "Tab 3">>
ToggleNames == {MenuTabs[i] : i \in 1..Len(MenuTabs)}
\* names TabViewer::ui can be handed: the five above and ones never inserted
AllNames == ToggleNames \cup {"Inspector", "", "viewport"}

\* sizes a panel can report, in half pixels: 800x600 and 512.5x512
AvailSizes == {<<1600, 1200>>, <<1025, 1024>>}
Scales == 2..MaxScaleHalves

InitialColor == <<8, 7, 6, 10>>      \* Color::rgb(0.8, 0.7, 0.6), tenths
Palette == {<<1, 2, 3, 10>>}         \* colours the user may pick

----------------------------------------------------------------------------
(* The dock tree: Tree<String> *)

Nodes == 0..6
Root == 0
Left(i) == 2 * i + 1
Right(i) == 2 * i + 2
Parent(i) == (i - 1) \div 2
IsLeft(i) == i % 2 = 1
Sibling(i) == IF IsLeft(i) THEN i + 1 ELSE i - 1

EmptyNode == [kind |-> "Empty", tabs |-> <<>>, active |-> 0, fraction |-> 0]
LeafWith(tabs) == [kind |-> "Leaf", tabs |-> tabs, active |-> 0, fraction |-> 0]
SplitNode(kind, fraction) ==
    [kind |-> kind, tabs |-> <<>>, active |-> 0, fraction |-> fraction]

IsLeaf(n) == n.kind = "Leaf"
IsSplit(n) == n.kind \in {"Horizontal", "Vertical"}

\* Tree::new(tabs): a root leaf holding tabs, nothing focused
TreeNew(tabs) ==
    [tree |-> [i \in Nodes |-> IF i = Root THEN LeafWith(tabs) ELSE EmptyNode],
     focused |-> <<>>]

\* split(location, direction, proportion, new_tabs): the node becomes a split,
\* its old content moves to one child and new_tabs to the other, which takes
\* the focus.  Returns the indices [old, new].
TreeSplit(dt, parent, dir, fraction, newTabs) ==
    LET kind == IF dir \in {"Left", "Right"} THEN "Horizontal" ELSE "Vertical"
        old == IF dir \in {"Left", "Above"} THEN Right(parent) ELSE Left(parent)
        new == IF dir \in {"Left", "Above"} THEN Left(parent) ELSE Right(parent)
    IN  [tree |-> [dt.tree EXCEPT ![parent] = SplitNode(kind, fraction),
                                  ![old] = dt.tree[parent],
                                  ![new] = LeafWith(newTabs)],
         focused |-> <<new>>,
         old |-> old,
         new |-> new]

\* first index at which tab occurs in the sequence tabs, 0-based, or -1
RECURSIVE PositionFrom(_, _, _)
PositionFrom(tabs, tab, i) ==
    IF i > Len(tabs) THEN -1
    ELSE IF tabs[i] = tab THEN i - 1
    ELSE PositionFrom(tabs, tab, i + 1)

\* find(name): the first location <<node, tab index>> in node order whose tab
\* equals name, or <<>>
RECURSIVE FindFrom(_, _, _)
FindFrom(t, tab, i) ==
    IF i \notin Nodes THEN <<>>
    ELSE IF IsLeaf(t[i]) /\ PositionFrom(t[i].tabs, tab, 1) >= 0
         THEN <<i, PositionFrom(t[i].tabs, tab, 1)>>
    ELSE FindFrom(t, tab, i + 1)

FindTab(t, tab) == FindFrom(t, tab, 0)

\* the sequence s without its element at 0-based index k
RemoveAt(s, k) == [j \in 1..(Len(s) - 1) |-> IF j <= k THEN s[j] ELSE s[j + 1]]

RECURSIVE InSubtree(_, _)
InSubtree(i, p) ==
    IF i = p THEN TRUE
    ELSE IF i <= p THEN FALSE
    ELSE InSubtree(Parent(i), p)

\* the node that sits below `to` where i sits below `from`
RECURSIVE Rebase(_, _, _)
Rebase(i, from, to) ==
    IF i = from THEN to
    ELSE LET m == Rebase(Parent(i), from, to)
         IN  IF IsLeft(i) THEN Left(m) ELSE Right(m)

\* collapse rule: the emptied leaf n goes away and its sibling's subtree takes
\* the place of their parent
CollapseLeaf(dt, n) ==
    LET p == Parent(n)
        s == Sibling(n)
        t == dt.tree
        f == dt.focused
    IN  [tree |-> [i \in Nodes |->
                     IF InSubtree(i, p)
                     THEN IF Rebase(i, p, s) \in Nodes
                          THEN t[Rebase(i, p, s)] ELSE EmptyNode
                     ELSE t[i]],
         focused |-> IF f = <<>> THEN <<>>
                     ELSE IF f[1] = n THEN <<>>
                     ELSE IF InSubtree(f[1], s) THEN <<Rebase(f[1], s, p)>>
                     ELSE f]

\* remove(location): deletes the tab; a leaf that becomes empty does not stay:
\* it is collapsed into its sibling, and a leaf with no sibling (the root
\* leaf) goes with nothing to take its place, which leaves a tree of no nodes
RemoveTab(dt, loc) ==
    LET n == loc[1]
        k == loc[2]
        node == dt.tree[n]
        act == IF k <= node.active /\ node.active > 0
               THEN node.active - 1 ELSE node.active
        shrunk == [node EXCEPT !.tabs = RemoveAt(node.tabs, k), !.active = act]
        after == [tree |-> [dt.tree EXCEPT ![n] = shrunk], focused |-> dt.focused]
    IN  IF Len(shrunk.tabs) > 0 THEN after
        ELSE IF n = Root
             THEN [tree |-> [dt.tree EXCEPT ![Root] = EmptyNode], focused |-> <<>>]
        ELSE CollapseLeaf(after, n)

RECURSIVE FirstLeafFrom(_, _)
FirstLeafFrom(t, i) ==
    IF i \notin Nodes THEN Root
    ELSE IF IsLeaf(t[i]) THEN i
    ELSE FirstLeafFrom(t, i + 1)

\* insert(name): appends the tab to the focused leaf, or to the first leaf
\* (the root leaf when the tree is one leaf) if none is focused; in a tree of
\* no nodes the tab makes the root leaf.  The new tab becomes the leaf's
\* visible tab and the leaf the focused one
PushToFocusedLeaf(dt, tab) ==
    LET n == IF dt.focused # <<>> /\ IsLeaf(dt.tree[dt.focused[1]])
             THEN dt.focused[1] ELSE FirstLeafFrom(dt.tree, 0)
        node == dt.tree[n]
    IN  [tree |-> [dt.tree EXCEPT ![n] =
                     IF IsLeaf(node)
                     THEN [node EXCEPT !.tabs = Append(node.tabs, tab),
                                       !.active = Len(node.tabs)]
                     ELSE LeafWith(<<tab>>)],
         focused |-> <<n>>]

\* all <<node, tab index>> locations of the tree
Locations(t) ==
    {l \in Nodes \X (0..(Len(MenuTabs) - 1)) :
        IsLeaf(t[l[1]]) /\ l[2] < Len(t[l[1]].tabs)}

\* tab names held anywhere in the tree
TabNames(t) == {t[l[1]].tabs[l[2] + 1] : l \in Locations(t)}

\* number of tabs named tab
Occurrences(t, tab) == Cardinality({l \in Locations(t) : t[l[1]].tabs[l[2] + 1] = tab})

----------------------------------------------------------------------------
(* setup_docktree, setup_viewport, setup_scene *)

\* setup_docktree with the last split's tab name copied from the split before
SetupDocktreeDup ==
    LET t0 == TreeNew(<<"Viewport", "Tab 1">>)
        s1 == TreeSplit(t0, Root, "Left", 3, <<"Scene Control">>)
        s2 == TreeSplit(s1, s1.old, "Below", 7, <<"Tab 2">>)
        s3 == TreeSplit(s2, s1.new, "Below", 5, <<"Tab 2">>)
    IN  [tree |-> s3.tree, focused |-> s3.focused]

\* setup_docktree: the fixed split layout
SetupDocktree ==
    LET t0 == TreeNew(<<"Viewport", "Tab 1">>)
        s1 == TreeSplit(t0, Root, "Left", 3, <<"Scene Control">>)
        a  == s1.old
        b  == s1.new
        s2 == TreeSplit(s1, a, "Below", 7, <<"Tab 2">>)
        s3 == TreeSplit(s2, b, "Below", 5, <<"Tab 3">>)
    IN  [tree |-> s3.tree, focused |-> s3.focused]

\* setup_viewport: the image starts at the default size
SetupViewport == <<DefaultSize, DefaultSize>>

\* what setup_viewport, setup_scene and the window plugin leave behind
SoundWorld ==
    [image |-> TRUE, texId |-> TRUE, windows |-> 1, cubes |-> 1, material |-> TRUE]

Worlds ==
    [image : BOOLEAN, texId : BOOLEAN, windows : 0..1, cubes : 0..2,
     material : BOOLEAN]

----------------------------------------------------------------------------
(* TabViewer::ui *)

\* f32 -> u32 of a size given in half pixels (as_uvec2, `as u32`): truncation
AsU32(halves) == halves \div 2

\* `self.window_scale_factor as u32`: f64 -> u32 truncation, scale in halves
ScaleAsU32(sc) == sc \div 2

\* u32 multiplication; the sizes and scale factors of AvailSizes and Scales
\* keep every product far below 2^32, where it is exact
U32Mul(a, b) == a * b

Draw(kind, text, size, color) ==
    [kind |-> kind, text |-> text, size |-> size, color |-> color]

\* the "Viewport" arm: resize the image if its size differs from the panel's
ViewportArm(img, avail, sc) ==
    LET seen == <<AsU32(avail[1]), AsU32(avail[2])>>
        size == <<U32Mul(AsU32(avail[1]), ScaleAsU32(sc)),
                  U32Mul(AsU32(avail[2]), ScaleAsU32(sc))>>
    IN  IF img # seen
        THEN [image |-> size, resizes |-> 1]
        ELSE [image |-> img, resizes |-> 0]

\* TabViewer::ui with every arm but "Scene Control" resizing the image
TabUiResizeAll(tab, st, avail, sc, edit) ==
    IF tab = "Scene Control"
    THEN [st EXCEPT !.tabs = Append(st.tabs, tab),
                    !.drawn = Append(st.drawn,
                        Draw("color_edit", <<"Edit Cube Color:">>, <<>>, st.color))]
    ELSE LET r == ViewportArm(st.image, avail, sc)
         IN  [st EXCEPT !.tabs = Append(st.tabs, tab),
                        !.image = r.image,
                        !.resizes = st.resizes + r.resizes,
                        !.observed = IF tab = "Viewport" THEN avail ELSE st.observed,
                        !.drawn = Append(st.drawn,
                            IF tab = "Viewport"
                            THEN Draw("image", <<>>, avail, <<>>)
                            ELSE Draw("label", <<"Content of ", tab>>, <<>>, <<>>))]

\* TabViewer::ui without the default arm: other names draw nothing
TabUiNoDefault(tab, st, avail, sc, edit) ==
    IF tab = "Viewport"
    THEN LET r == ViewportArm(st.image, avail, sc)
         IN  [st EXCEPT !.tabs = Append(st.tabs, tab),
                        !.image = r.image,
                        !.resizes = st.resizes + r.resizes,
                        !.observed = avail,
                        !.drawn = Append(st.drawn, Draw("image", <<>>, avail, <<>>))]
    ELSE IF tab = "Scene Control"
    THEN [st EXCEPT !.tabs = Append(st.tabs, tab),
                    !.drawn = Append(st.drawn,
                        Draw("color_edit", <<"Edit Cube Color:">>, <<>>, st.color))]
    ELSE [st EXCEPT !.tabs = Append(st.tabs, tab)]

\* TabViewer::ui on one tab.  st carries the image size, the resize count, the
\* material colour, the tabs rendered and the draw output so far, and the size
\* the viewport saw.  edit is the colour the user picks in the colour editor
\* this frame, or <<>>.
TabUi(tab, st, avail, sc, edit) ==
    IF tab = "Viewport"
    THEN LET r == ViewportArm(st.image, avail, sc)
         IN  [st EXCEPT !.tabs = Append(st.tabs, tab),
                        !.image = r.image,
                        !.resizes = st.resizes + r.resizes,
                        !.observed = avail,
                        !.drawn = Append(st.drawn, Draw("image", <<>>, avail, <<>>))]
    ELSE IF tab = "Scene Control"
    THEN LET color == IF edit # <<>> THEN edit ELSE st.color
         IN  [st EXCEPT !.tabs = Append(st.tabs, tab),
                        !.color = color,
                        !.drawn = Append(st.drawn,
                            Draw("color_edit", <<"Edit Cube Color:">>, <<>>, color))]
    ELSE [st EXCEPT !.tabs = Append(st.tabs, tab),
                    !.drawn = Append(st.drawn,
                        Draw("label", <<"Content of ", tab>>, <<>>, <<>>))]

FrameStart(img, color) ==
    [image |-> img, resizes |-> 0, color |-> color, tabs |-> <<>>,
     drawn |-> <<>>, observed |-> <<>>]

----------------------------------------------------------------------------
(* update_ui *)

\* update_ui taking the first ExampleCube instead of the single one
PanicOfFirstCube(w) ==
    IF ~w.image THEN "Could not get viewport image"
    ELSE IF ~w.texId THEN "Could not get viewport texture ID"
    ELSE IF w.windows # 1 THEN "unwrap: no single primary window"
    ELSE IF w.cubes = 0 THEN "unwrap: no single ExampleCube"
    ELSE IF ~w.material THEN "unwrap: no cube material"
    ELSE ""

\* the expect/unwrap at the top of update_ui that fails first, or ""
PanicOf(w) ==
    IF ~w.image THEN "Could not get viewport image"
    ELSE IF ~w.texId THEN "Could not get viewport texture ID"
    ELSE IF w.windows # 1 THEN "unwrap: no single primary window"
    ELSE IF w.cubes # 1 THEN "unwrap: no single ExampleCube"
    ELSE IF ~w.material THEN "unwrap: no cube material"
    ELSE ""

NoOp == [kind |-> "none", name |-> ""]

\* the menu toggle removing the first tab of the leaf find_tab located
MenuToggleFirstTab(dt, tab) ==
    LET found == FindTab(dt.tree, tab)
    IN  IF found # <<>>
        THEN [dt |-> RemoveTab(dt, <<found[1], 0>>),
              op |-> [kind |-> "remove", name |-> tab]]
        ELSE [dt |-> PushToFocusedLeaf(dt, tab),
              op |-> [kind |-> "insert", name |-> tab]]

\* the menu toggle pushing the tab whether or not find_tab located it
MenuToggleAlwaysPush(dt, tab) ==
    [dt |-> PushToFocusedLeaf(dt, tab), op |-> [kind |-> "insert", name |-> tab]]

\* the body of the menu loop for a clicked label: remove the tab if find_tab
\* located it, else push it to the focused leaf
MenuToggle(dt, tab) ==
    LET found == FindTab(dt.tree, tab)
    IN  IF found # <<>>
        THEN [dt |-> RemoveTab(dt, found), op |-> [kind |-> "remove", name |-> tab]]
        ELSE [dt |-> PushToFocusedLeaf(dt, tab),
              op |-> [kind |-> "insert", name |-> tab]]

\* the menu loop over the five names from the i-th on; click is the label the
\* pointer clicked this frame, or ""
RECURSIVE MenuFrom(_, _, _, _, _)
MenuFrom(dt, i, click, labels, op) ==
    IF i > Len(MenuTabs) THEN [dt |-> dt, labels |-> labels, op |-> op]
    ELSE LET tab == MenuTabs[i]
             lab == [name |-> tab, selected |-> FindTab(dt.tree, tab) # <<>>]
             r == IF click = tab THEN MenuToggle(dt, tab) ELSE [dt |-> dt, op |-> op]
         IN  MenuFrom(r.dt, i + 1, click, Append(labels, lab), r.op)

\* the menu bar: the "Window" menu button, whose closure (the loop) runs only
\* while the menu is open
MenuBar(dt, open, click) ==
    LET button == <<[name |-> "Window", selected |-> open]>>
    IN  IF open
        THEN MenuFrom(dt, 1, click, button, NoOp)
        ELSE [dt |-> dt, labels |-> button, op |-> NoOp]

Range(q) == {q[i] : i \in 1..Len(q)}

\* the elements of a sequence with their multiplicities, their order dropped:
\* the order in which the dock area visits its leaves is the library's
BagOf(q) == [x \in Range(q) |-> Cardinality({i \in 1..Len(q) : q[i] = x})]
EmptyBag == BagOf(<<>>)
RECURSIVE BagSum(_, _)
BagSum(b, dom) ==
    IF dom = {} THEN 0
    ELSE LET x == CHOOSE y \in dom : TRUE IN b[x] + BagSum(b, dom \ {x})
BagSize(b) == BagSum(b, DOMAIN b)

\* the dock area's layout pass from node i on: TabViewer::ui for the visible
\* tab of every leaf.  The calls do not interfere (one arm touches the image,
\* one the colour, the rest nothing), so the order of the visits, which is the
\* library's, does not show in the result once the outputs are kept as bags
RECURSIVE ShowFrom(_, _, _, _, _, _)
ShowFrom(t, i, st, avail, sc, edit) ==
    IF i \notin Nodes THEN st
    ELSE IF IsLeaf(t[i]) /\ Len(t[i].tabs) > 0
         THEN ShowFrom(t, i + 1,
                       TabUi(t[i].tabs[t[i].active + 1], st, avail, sc, edit),
                       avail, sc, edit)
    ELSE ShowFrom(t, i + 1, st, avail, sc, edit)

\* update_ui showing the dock area before the menu bar
FrameDockFirst(dt, open, click, avail, edit, img, color, sc) ==
    LET m == MenuBar(dt, open, click)
    IN  [dt |-> m.dt, labels |-> m.labels, op |-> m.op,
         laidOut |-> TabNames(dt.tree),
         st |-> ShowFrom(dt.tree, 0, FrameStart(img, color), avail, sc, edit)]

\* one frame of update_ui past its lookups: the menu bar, then the dock area
Frame(dt, open, click, avail, edit, img, color, sc) ==
    LET m == MenuBar(dt, open, click)
    IN  [dt |-> m.dt, labels |-> m.labels, op |-> m.op,
         laidOut |-> TabNames(m.dt.tree),
         st |-> ShowFrom(m.dt.tree, 0, FrameStart(img, color), avail, sc, edit)]

Running == pc \in {"start", "ran"}

UpdateUiPanic ==
    /\ Running
    /\ PanicOf(world) # ""
    /\ pc' = PanicOf(world)
    /\ UNCHANGED <<dockVars, drawVars, scale, world, uiTab, rotVars>>

UpdateUiFrame ==
    /\ Running
    /\ PanicOf(world) = ""
    /\ \E open \in BOOLEAN,
          click \in ToggleNames \cup {""},
          avail \in AvailSizes,
          edit \in Palette \cup {<<>>} :
        \* one pointer click a frame: a menu label or the colour editor
        /\ click = "" \/ edit = <<>>
        \* a label can be clicked only while the menu shows it
        /\ click # "" => open
        /\ \E f \in {Frame([tree |-> tree, focused |-> focused], open, click,
                          avail, edit, imageSize, baseColor, scale)} :
               /\ tree' = f.dt.tree
               /\ focused' = f.dt.focused
               /\ menu' = f.labels
               /\ lastOp' = f.op
               /\ laidOut' = f.laidOut
               /\ imageSize' = f.st.image
               /\ baseColor' = f.st.color
               /\ rendered' = BagOf(f.st.tabs)
               /\ drawn' = BagOf(f.st.drawn)
               /\ resizes' = f.st.resizes
               /\ vpObserved' = f.st.observed
    /\ pc' = "ran"
    /\ UNCHANGED prevObserved
    /\ UNCHANGED <<scale, world, uiTab, rotVars>>

UpdateUi == UpdateUiPanic \/ UpdateUiFrame

----------------------------------------------------------------------------
(* TabViewer::ui on its own, for any tab name *)

RenderTab ==
    /\ pc = "start"
    /\ \E tab \in AllNames, avail \in AvailSizes, edit \in Palette \cup {<<>>} :
        LET st == TabUi(tab, FrameStart(imageSize, baseColor), avail, scale, edit)
        IN  /\ uiTab' = tab
            /\ imageSize' = st.image
            /\ baseColor' = st.color
            /\ rendered' = BagOf(st.tabs)
            /\ drawn' = BagOf(st.drawn)
            /\ resizes' = st.resizes
            /\ vpObserved' = st.observed
            /\ prevObserved' = vpObserved
    /\ UNCHANGED <<dockVars, scale, world, pc, rotVars>>

----------------------------------------------------------------------------
(* rotate_cube *)

Identity == <<<<1, 0, 0>>, <<0, 1, 0>>, <<0, 0, 1>>>>

MatMul(a, b) ==
    [i \in 1..3 |-> [j \in 1..3 |->
        a[i][1] * b[1][j] + a[i][2] * b[2][j] + a[i][3] * b[3][j]]]

\* cosine and sine of q quarter turns
Cos4(q) == CASE q % 4 = 0 -> 1 [] q % 4 = 1 -> 0 [] q % 4 = 2 -> -1 [] OTHER -> 0
Sin4(q) == CASE q % 4 = 0 -> 0 [] q % 4 = 1 -> 1 [] q % 4 = 2 -> 0 [] OTHER -> -1

\* Quat::from_rotation_x / from_rotation_z as matrices
RotX(q) == <<<<1, 0, 0>>, <<0, Cos4(q), -Sin4(q)>>, <<0, Sin4(q), Cos4(q)>>>>
RotZ(q) == <<<<Cos4(q), -Sin4(q), 0>>, <<Sin4(q), Cos4(q), 0>>, <<0, 0, 1>>>>

\* Transform::rotate_x / rotate_z: the new rotation is applied on the left
RotateX(r, q) == MatMul(RotX(q), r)
RotateZ(r, q) == MatMul(RotZ(q), r)

\* rotate_x given the z rate
AngleXAsZ(dt) == RateZ * dt

\* angles rotate_cube passes for a frame time dt
AngleX(dt) == RateX * dt
AngleZ(dt) == RateZ * dt

\* the loop body of rotate_cube for a frame time dt
RotateOnce(r, dt) == RotateZ(RotateX(r, AngleX(dt)), AngleZ(dt))

RotateCube ==
    /\ frames < MaxFrames
    /\ \E dt \in 0..MaxDt :
        /\ elapsed + dt <= MaxElapsed
        /\ rotation' = RotateOnce(rotation, dt)
        /\ elapsed' = elapsed + dt
        /\ xTurned' = xTurned + AngleX(dt)
        /\ zTurned' = zTurned + AngleZ(dt)
    /\ frames' = frames + 1
    /\ UNCHANGED <<dockVars, drawVars, envVars>>

----------------------------------------------------------------------------
(* Specifications *)

InitCommon ==
    /\ tree = SetupDocktree.tree
    /\ focused = SetupDocktree.focused
    /\ imageSize = SetupViewport
    /\ baseColor = InitialColor
    /\ pc = "start"
    /\ menu = <<>>
    /\ lastOp = NoOp
    /\ laidOut = {}
    /\ rendered = EmptyBag
    /\ drawn = EmptyBag
    /\ resizes = 0
    /\ vpObserved = <<>>
    /\ prevObserved = <<>>
    /\ rotation = Identity
    /\ elapsed = 0
    /\ frames = 0
    /\ xTurned = 0
    /\ zTurned = 0

    /\ uiTab = ""

\* update_ui every frame, on a window of any scale factor.  The sound
\* world is what the Startup systems leave behind; the other worlds are the
\* setup faults update_ui's expect/unwrap calls guard against.
Init ==
    /\ InitCommon
    /\ scale \in Scales
    /\ world \in Worlds

Next == UpdateUi

Spec == Init /\ [][Next]_vars

\* TabViewer::ui handed any tab name, at any panel size and scale factor
InitUi ==
    /\ InitCommon
    /\ scale \in Scales
    /\ world = SoundWorld

NextUi == RenderTab

SpecUi == InitUi /\ [][NextUi]_vars

\* rotate_cube on its own
InitRot ==
    /\ InitCommon
    /\ scale = 2
    /\ world = SoundWorld

NextRot == RotateCube

SpecRot == InitRot /\ [][NextRot]_vars

----------------------------------------------------------------------------
(* Properties *)

Present(t, name) == FindTab(t, name) # <<>>

\* node i hangs below the root through split nodes only
RECURSIVE Attached(_, _)
Attached(t, i) ==
    IF i = Root THEN TRUE
    ELSE IsSplit(t[Parent(i)]) /\ Attached(t, Parent(i))

\* attached leaves holding a tab named name
HoldingLeaves(t, name) ==
    {i \in Nodes : IsLeaf(t[i]) /\ Attached(t, i) /\ name \in Range(t[i].tabs)}

\* C1: presence/absence round trip of the menu toggle.  Right after the frame
\* whose click inserted a name, find_tab locates it; right after the frame
\* whose click removed the location find_tab had returned, find_tab finds
\* nothing for it.
C1_RoundTrip ==
    /\ lastOp.kind = "insert" => FindTab(tree, lastOp.name) # <<>>
    /\ lastOp.kind = "remove" => FindTab(tree, lastOp.name) = <<>>

\* "Tab 2", in the initial layout, has been toggled off and on again
C1_Witness ==
    /\ lastOp = [kind |-> "insert", name |-> "Tab 2"]
    /\ FindTab(tree, "Tab 2") # <<>>
    /\ TabNames(tree) = ToggleNames

\* C2: sync_size is idempotent.  When TabViewer::ui renders "Viewport" twice
\* in succession with the same available size, the second render does not
\* call resize.
C2_Idempotent ==
    (vpObserved # <<>> /\ prevObserved = vpObserved) => resizes = 0

\* C3: after "Viewport" is rendered with available size (w, h), the image is
\* exactly (w, h) in whole pixels times the window scale factor (sizes doubled
\* here because the scale factor is in halves).
C3_ExactScaledSize ==
    vpObserved # <<>> =>
        /\ 2 * imageSize[1] = AsU32(vpObserved[1]) * scale
        /\ 2 * imageSize[2] = AsU32(vpObserved[2]) * scale

ClaimedFault(w) == ~w.image \/ ~w.texId \/ w.windows = 0 \/ w.cubes # 1

\* C5: when the viewport image, its texture id or the primary window is
\* missing, or there is not exactly one ExampleCube, update_ui never gets to
\* the menu bar: no label is drawn, the tree is as setup_docktree left it, no
\* tab is rendered, and once update_ui has been run the program has panicked.
C5_FaultTerminates ==
    ClaimedFault(world) =>
        /\ pc # "ran"
        /\ menu = <<>>
        /\ lastOp = NoOp
        /\ tree = SetupDocktree.tree
        /\ focused = SetupDocktree.focused
        /\ rendered = EmptyBag
        /\ drawn = EmptyBag
        /\ imageSize = SetupViewport

\* update_ui has panicked on a world holding two ExampleCubes
C5_Witness ==
    /\ world = [SoundWorld EXCEPT !.cubes = 2]
    /\ pc = "unwrap: no single ExampleCube"

\* C6: dispatch totality.  For every tab name, TabViewer::ui produces exactly
\* one draw output: the image for "Viewport", the colour editor for "Scene
\* Control", and for every other name a label holding the name.
C6_DispatchTotal ==
    DOMAIN rendered # {} =>
        /\ rendered = BagOf(<<uiTab>>)
        /\ BagSize(drawn) = 1
        /\ uiTab = "Viewport" => \A d \in DOMAIN drawn : d.kind = "image"
        /\ uiTab = "Scene Control" => \A d \in DOMAIN drawn : d.kind = "color_edit"
        /\ uiTab \notin {"Viewport", "Scene Control"} =>
             drawn = BagOf(<<Draw("label", <<"Content of ", uiTab>>, <<>>, <<>>)>>)

\* a name the program never inserts has gone through the default arm
C6_Witness ==
    /\ uiTab = "Inspector"
    /\ drawn = BagOf(<<Draw("label", <<"Content of ", "Inspector">>, <<>>, <<>>)>>)

\* C7 as claimed: the angles turned about x and z are 1.5 and 1.3 times the
\* total elapsed time, and the rotation is what one rotate_cube step over the
\* total elapsed time gives, however the time was sliced into frames.
C7_SliceIndependent ==
    /\ xTurned = RateX * elapsed
    /\ zTurned = RateZ * elapsed
    /\ rotation = RotateOnce(Identity, elapsed)

\* C7 as amended: the angles passed to rotate_x and rotate_z sum to 1.5 and 1.3
\* times the total elapsed time, and the rotation is that of the single step
\* when the whole elapsed time fell into one frame.
C7_AnglesSum ==
    /\ xTurned = RateX * elapsed
    /\ zTurned = RateZ * elapsed
    /\ frames <= 1 => rotation = RotateOnce(Identity, elapsed)

\* the same total elapsed time in several frames has left another rotation
\* than the single step
C7_Witness ==
    /\ frames = 2
    /\ elapsed = 2
    /\ xTurned = RateX * 2
    /\ rotation # RotateOnce(Identity, 2)

\* C8: a menu toggle takes effect within its frame.  The tab a frame's click
\* removed is neither laid out nor rendered by that frame, and the tab a
\* frame's click inserted is in the tree that frame lays out.
C8_SameFrame ==
    /\ lastOp.kind = "remove" =>
         lastOp.name \notin laidOut /\ lastOp.name \notin DOMAIN rendered
    /\ lastOp.kind = "insert" => lastOp.name \in laidOut

\* "Viewport" was toggled off by a frame that still rendered other tabs
C8_Witness ==
    /\ lastOp = [kind |-> "remove", name |-> "Viewport"]
    /\ DOMAIN rendered # {}
    /\ "Viewport" \notin DOMAIN rendered

\* C9: the image is resized only by rendering "Viewport".  No frame calls
\* resize more than once, and a frame that renders no "Viewport" tab leaves
\* the image size as it was.
C9_ResizeOnlyByViewport ==
    /\ [](resizes <= 1)
    /\ [][("Viewport" \notin DOMAIN rendered') => imageSize' = imageSize]_vars

\* "Viewport" is in the tree but hidden behind another tab of its leaf, and
\* the image keeps the size an earlier frame gave it
C9_Witness ==
    /\ pc = "ran"
    /\ FindTab(tree, "Viewport") # <<>>
    /\ "Viewport" \notin DOMAIN rendered
    /\ DOMAIN rendered # {}
    /\ imageSize # SetupViewport
    /\ resizes = 0

\* C10: name uniqueness.  Each of the five names is on at most one tab, the
\* tree holds at most five tabs, all of them among the five names, and a frame
\* flips the presence of the clicked name and of no other.
C10_UniqueNames ==
    /\ [](/\ \A n \in ToggleNames : Occurrences(tree, n) <= 1
          /\ Cardinality(Locations(tree)) <= Len(MenuTabs)
          /\ TabNames(tree) \subseteq ToggleNames)
    /\ [][\A n \in ToggleNames :
            Present(tree', n) = (IF n = lastOp'.name THEN ~Present(tree, n)
                                 ELSE Present(tree, n))]_vars

\* "Viewport" was toggled back on: five tabs again, one of them "Viewport"
C10_Witness ==
    /\ lastOp = [kind |-> "insert", name |-> "Viewport"]
    /\ Cardinality(Locations(tree)) = 5
    /\ Occurrences(tree, "Viewport") = 1

====
